---- MODULE Spec2Model ----
(***************************************************************************)
(* Linux Show Player: the synchronization decorators of                    *)
(* lisp/core/decorators.py and the cue-sequencing policy of                *)
(* lisp/layouts/list_layout/layout.py (ListLayout).                        *)
(*                                                                         *)
(* SpecSync  threads calling synchronized functions and methods            *)
(* SpecList  go / set_current_index on a cue list                          *)
(***************************************************************************)
EXTENDS Integers, Sequences, FiniteSets, TLC

(***************************************************************************)
(* Bounds                                                                  *)
(***************************************************************************)
NumThreads == 2
MaxDepth == 2
MaxCues == 3
MaxTarget == 5
MaxAdvance == 2
MaxGo == 7
MaxCached == 3
MaxInvoked == 3
MaxArgs == 3
MaxTasks == 3
PoolSize == 1

Threads == 1..NumThreads
NoThread == 0

(***************************************************************************)
(* The decorated program: one synchronized function "f" and synchronized   *)
(* methods; "a" and "b" are decorated with the same explicit lock_name,    *)
(* "c" with none.                                                          *)
(***************************************************************************)
Functions == {"f"}
Methods == {"a", "b", "c"}
Callables == Functions \cup Methods

Objects == {"o1", "o2"}
NoObject == "-"

\* the explicit lock_name is ignored
LockNameOfMethod(c) == "__" \o c \o "_lock__"

\* the lock_name argument of each synchronized_method decoration
ExplicitLockName(c) == IF c \in {"a", "b"} THEN "shared" ELSE "None"

\* synchronized_method: the attribute name of the lock
LockName(c) ==
  IF ExplicitLockName(c) /= "None"
    THEN ExplicitLockName(c)
    ELSE "__" \o c \o "_lock__"

LockNames == {LockName(c) : c \in Methods}

\* the (blocking, timeout) arguments of a decoration
Configs ==
  { [blocking |-> TRUE,  timeout |-> -1],
    [blocking |-> FALSE, timeout |-> -1],
    [blocking |-> TRUE,  timeout |-> 1],
    [blocking |-> TRUE,  timeout |-> -2],
    [blocking |-> FALSE, timeout |-> 1] }

Default == [blocking |-> TRUE, timeout |-> -1]

\* RLock.acquire(blocking, timeout) rejects these arguments with ValueError
ArgsValid(k) ==
  /\ ~(~k.blocking /\ k.timeout /= -1)
  /\ ~(k.timeout < 0 /\ k.timeout /= -1)

\* a call that waits without limit for the lock
WaitsForever(k) == k.blocking /\ k.timeout = -1

\* target.__lock__ = RLock(): the lock of the synchronized function
FnLock == 1
NoLock == 0

VARIABLES
  cfg,        \* callable -> its (blocking, timeout)
  stack,      \* thread -> its frames of wrapper calls, innermost last
  lockOwner,  \* lock object -> the thread that owns it, or NoThread
  lockCount,  \* lock object -> its recursion level
  attr,       \* object -> attribute name -> lock object, or NoLock
  meta_lock,  \* the holder of _synchronized_meta_lock, or NoThread
  cues,       \* ListLayout: number of cues in the list
  current_index,    \* ListLayout: listView.currentIndex().row(), -1 for none
  auto_continue, \* ListLayout: _auto_continue
  end_list,    \* ListLayout: _end_list
  op,         \* ListLayout: the operation that ran last and what it did
  history,    \* ListLayout: the cues executed by the recorded series of go
  cache,      \* memoize: obj.cache, key -> stored result
  res,        \* the wrapper call that returned last and its outcome
  tasks,      \* async / async_in_pool: the dispatched calls
  memo,       \* memoize, concurrent callers: thread -> its place in memoizer
  invoked     \* memoize, concurrent callers: key -> invocations of the body

listVars == <<cues, current_index, auto_continue, end_list, op, history>>
wrapVars == <<cache, res, tasks, memo, invoked>>
vars == <<cfg, stack, lockOwner, lockCount, attr, meta_lock,
          cues, current_index, auto_continue, end_list, op, history,
          cache, res, tasks, memo, invoked>>

(***************************************************************************)
(* Frames                                                                  *)
(***************************************************************************)
Depth(t) == Len(stack[t])
Top(t) == stack[t][Depth(t)]
At(t, p) == IF Depth(t) = 0 THEN FALSE ELSE Top(t).pc = p

SetTop(t, f) == [stack EXCEPT ![t][Depth(t)] = f]

Locks == DOMAIN lockOwner

(***************************************************************************)
(* Initial state: the decorators have run, no call has been made.          *)
(***************************************************************************)
InitLocks ==
  /\ stack = [t \in Threads |-> <<>>]
  /\ lockOwner = [l \in {FnLock} |-> NoThread]
  /\ lockCount = [l \in {FnLock} |-> 0]
  /\ attr = [o \in Objects |-> [n \in LockNames |-> NoLock]]
  /\ meta_lock = NoThread

\* the result of a call that returns nothing (None)
NoResult == 0

\* no decorated call made
NoCall ==
  [fn |-> "-", args |-> <<>>, kwargs |-> <<>>, ran |-> 0, body |-> "-",
   ret |-> NoResult, exc |-> "none", logged |-> FALSE, before |-> <<>>]

\* a thread that is not inside memoizer
NoMemo == [pc |-> "idle", key |-> "", val |-> NoResult, ret |-> NoResult]

\* no memoized, suppressed, typechecked or asynchronous call in use
WrapIdle ==
  /\ cache = <<>>
  /\ res = NoCall
  /\ tasks = <<>>
  /\ memo = [t \in Threads |-> NoMemo]
  /\ invoked = <<>>

\* no ListLayout in use
ListIdle ==
  /\ cues = 0
  /\ current_index = -1
  /\ auto_continue = FALSE
  /\ end_list = "Stop"
  /\ op = [name |-> "none"]
  /\ history = <<>>

\* every decoration with the same arguments
InitSync ==
  /\ cfg \in {[c \in Callables |-> k] : k \in Configs}
  /\ InitLocks
  /\ ListIdle
  /\ WrapIdle

(***************************************************************************)
(* threading.RLock                                                         *)
(***************************************************************************)
\* a lock that does not exclude other threads
CanAcquireAny(l, t) == TRUE

\* a lock that is not re-entrant (Lock() in place of RLock())
CanAcquireIfFree(l, t) == lockOwner[l] = NoThread

\* acquire() by thread t succeeds at once: the lock is free or t owns it
CanAcquire(l, t) == lockOwner[l] \in {NoThread, t}

\* the owner and the recursion level once t has called l.release();
\* from a thread that does not own l the call raises RuntimeError
ReleaseRaises(l, t) == lockOwner[l] /= t

OwnerAfterRelease(l, t) ==
  IF ReleaseRaises(l, t) THEN lockOwner[l]
  ELSE IF lockCount[l] = 1 THEN NoThread ELSE t

CountAfterRelease(l, t) ==
  IF ReleaseRaises(l, t) THEN lockCount[l] ELSE lockCount[l] - 1

(***************************************************************************)
(* synchronized_function.synchronized / synchronized_method.wrapped        *)
(***************************************************************************)
\* the lock is released only when the call leaves without an exception
FinallyOnReturnOnly(t, e) ==
  IF e = "none"
    THEN /\ lockOwner' = [lockOwner EXCEPT ![Top(t).lock] =
                            OwnerAfterRelease(Top(t).lock, t)]
         /\ lockCount' = [lockCount EXCEPT ![Top(t).lock] =
                            CountAfterRelease(Top(t).lock, t)]
    ELSE UNCHANGED <<lockOwner, lockCount>>

\* finally: lock.release(), run whether the call is leaving with a result
\* or with the pending exception e
Finally(t, e) ==
  /\ lockOwner' = [lockOwner EXCEPT ![Top(t).lock] =
                     OwnerAfterRelease(Top(t).lock, t)]
  /\ lockCount' = [lockCount EXCEPT ![Top(t).lock] =
                     CountAfterRelease(Top(t).lock, t)]

\* except RuntimeError: pass -- the exception the call leaves with is the
\* pending one, never the RuntimeError of release()
ExcAfterFinally(t, e) == e

\* a thread calls the wrapper, at top level or from inside a wrapped body
Call(t, c, o) ==
  /\ Depth(t) < MaxDepth
  /\ IF Depth(t) = 0 THEN TRUE ELSE Top(t).pc = "body"
  /\ stack' = [stack EXCEPT ![t] = Append(@,
       [c |-> c, o |-> o,
        pc |-> IF c \in Functions THEN "acquire" ELSE "meta",
        lock |-> IF c \in Functions THEN FnLock ELSE NoLock,
        acq |-> "-", ran |-> FALSE, ret |-> "None", exc |-> "none"])]
  /\ UNCHANGED <<cfg, lockOwner, lockCount, attr, meta_lock>>
  /\ UNCHANGED listVars
  /\ UNCHANGED wrapVars

\* the lock is looked up without waiting for the meta-lock
MetaAcquireNoWait(t) ==
  /\ At(t, "meta")
  /\ meta_lock' = t
  /\ stack' = SetTop(t, [Top(t) EXCEPT !.pc = "getattr"])
  /\ UNCHANGED <<cfg, lockOwner, lockCount, attr>>
  /\ UNCHANGED listVars
  /\ UNCHANGED wrapVars

\* with _synchronized_meta_lock: (enter)
MetaAcquire(t) ==
  /\ At(t, "meta")
  /\ meta_lock = NoThread
  /\ meta_lock' = t
  /\ stack' = SetTop(t, [Top(t) EXCEPT !.pc = "getattr"])
  /\ UNCHANGED <<cfg, lockOwner, lockCount, attr>>
  /\ UNCHANGED listVars
  /\ UNCHANGED wrapVars

\* the lock is looked up on one holder shared by all instances
GetAttrOfClass(t) ==
  /\ At(t, "getattr")
  /\ LET l == attr["o1"][LockName(Top(t).c)] IN
       stack' = SetTop(t, [Top(t) EXCEPT
                  !.lock = l,
                  !.pc = IF l = NoLock THEN "create" ELSE "metarel"])
  /\ UNCHANGED <<cfg, lockOwner, lockCount, attr, meta_lock>>
  /\ UNCHANGED listVars
  /\ UNCHANGED wrapVars

\* lock = getattr(self, lock_name, None)
GetAttr(t) ==
  /\ At(t, "getattr")
  /\ LET l == attr[Top(t).o][LockName(Top(t).c)] IN
       stack' = SetTop(t, [Top(t) EXCEPT
                  !.lock = l,
                  !.pc = IF l = NoLock THEN "create" ELSE "metarel"])
  /\ UNCHANGED <<cfg, lockOwner, lockCount, attr, meta_lock>>
  /\ UNCHANGED listVars
  /\ UNCHANGED wrapVars

\* lock = RLock(); setattr(self, lock_name, lock)
CreateLock(t) ==
  /\ At(t, "create")
  /\ LET new == Cardinality(Locks) + 1 IN
       /\ lockOwner' = [l \in Locks \cup {new} |->
                          IF l = new THEN NoThread ELSE lockOwner[l]]
       /\ lockCount' = [l \in Locks \cup {new} |->
                          IF l = new THEN 0 ELSE lockCount[l]]
       /\ attr' = [attr EXCEPT ![Top(t).o][LockName(Top(t).c)] = new]
       /\ stack' = SetTop(t, [Top(t) EXCEPT !.lock = new, !.pc = "metarel"])
  /\ UNCHANGED <<cfg, meta_lock>>
  /\ UNCHANGED listVars
  /\ UNCHANGED wrapVars

\* the try block is inside the with block: the meta-lock is kept
MetaReleaseLate(t) ==
  /\ At(t, "metarel")
  /\ stack' = SetTop(t, [Top(t) EXCEPT !.pc = "acquire"])
  /\ UNCHANGED <<cfg, lockOwner, lockCount, attr, meta_lock>>
  /\ UNCHANGED listVars
  /\ UNCHANGED wrapVars

\* with _synchronized_meta_lock: (exit)
MetaRelease(t) ==
  /\ At(t, "metarel")
  /\ meta_lock' = NoThread
  /\ stack' = SetTop(t, [Top(t) EXCEPT !.pc = "acquire"])
  /\ UNCHANGED <<cfg, lockOwner, lockCount, attr>>
  /\ UNCHANGED listVars
  /\ UNCHANGED wrapVars

\* lock.acquire(blocking=blocking, timeout=timeout) returns True
AcquireOk(t) ==
  /\ At(t, "acquire")
  /\ ArgsValid(cfg[Top(t).c])
  /\ CanAcquire(Top(t).lock, t)
  /\ lockOwner' = [lockOwner EXCEPT ![Top(t).lock] = t]
  /\ lockCount' = [lockCount EXCEPT ![Top(t).lock] = @ + 1]
  /\ stack' = SetTop(t, [Top(t) EXCEPT
                !.pc = "body", !.acq = "True", !.ran = TRUE])
  /\ UNCHANGED <<cfg, attr, meta_lock>>
  /\ UNCHANGED listVars
  /\ UNCHANGED wrapVars

\* the result of acquire() is not tested: the body runs without the lock
AcquireFailRunsBody(t) ==
  /\ At(t, "acquire")
  /\ ArgsValid(cfg[Top(t).c])
  /\ ~CanAcquire(Top(t).lock, t)
  /\ ~WaitsForever(cfg[Top(t).c])
  /\ stack' = SetTop(t, [Top(t) EXCEPT
                !.pc = "body", !.acq = "False", !.ran = TRUE])
  /\ UNCHANGED <<cfg, lockOwner, lockCount, attr, meta_lock>>
  /\ UNCHANGED listVars
  /\ UNCHANGED wrapVars

\* lock.acquire(...) returns False (non-blocking, or the timeout elapsed):
\* return None, then the finally clause
AcquireFail(t) ==
  /\ At(t, "acquire")
  /\ ArgsValid(cfg[Top(t).c])
  /\ ~CanAcquire(Top(t).lock, t)
  /\ ~WaitsForever(cfg[Top(t).c])
  /\ Finally(t, "none")
  /\ stack' = SetTop(t, [Top(t) EXCEPT
                !.pc = "return", !.acq = "False", !.ret = "None",
                !.exc = ExcAfterFinally(t, "none")])
  /\ UNCHANGED <<cfg, attr, meta_lock>>
  /\ UNCHANGED listVars
  /\ UNCHANGED wrapVars

\* lock.acquire(...) raises ValueError for arguments it rejects, then the
\* finally clause
AcquireError(t) ==
  /\ At(t, "acquire")
  /\ ~ArgsValid(cfg[Top(t).c])
  /\ Finally(t, "ValueError")
  /\ stack' = SetTop(t, [Top(t) EXCEPT
                !.pc = "return", !.acq = "raised",
                !.exc = ExcAfterFinally(t, "ValueError")])
  /\ UNCHANGED <<cfg, attr, meta_lock>>
  /\ UNCHANGED listVars
  /\ UNCHANGED wrapVars

\* return target(*args, **kwargs): the body returns its value, then the
\* finally clause
BodyReturn(t) ==
  /\ At(t, "body")
  /\ Finally(t, "none")
  /\ stack' = SetTop(t, [Top(t) EXCEPT
                !.pc = "return", !.ret = "value",
                !.exc = ExcAfterFinally(t, "none")])
  /\ UNCHANGED <<cfg, attr, meta_lock>>
  /\ UNCHANGED listVars
  /\ UNCHANGED wrapVars

\* return target(*args, **kwargs): the body raises, then the finally clause
BodyRaise(t) ==
  /\ At(t, "body")
  /\ Finally(t, "BodyError")
  /\ stack' = SetTop(t, [Top(t) EXCEPT
                !.pc = "return",
                !.exc = ExcAfterFinally(t, "BodyError")])
  /\ UNCHANGED <<cfg, attr, meta_lock>>
  /\ UNCHANGED listVars
  /\ UNCHANGED wrapVars

\* the wrapper returns to its caller (or the exception leaves it)
Return(t) ==
  /\ At(t, "return")
  /\ stack' = [stack EXCEPT ![t] = SubSeq(@, 1, Len(@) - 1)]
  /\ UNCHANGED <<cfg, lockOwner, lockCount, attr, meta_lock>>
  /\ UNCHANGED listVars
  /\ UNCHANGED wrapVars

\* the threads call f(), o1.a() and o1.b()
NextSync ==
  \E t \in Threads :
    \/ Call(t, "f", NoObject)
    \/ Call(t, "a", "o1")
    \/ Call(t, "b", "o1")
    \/ MetaAcquire(t)
    \/ GetAttr(t)
    \/ CreateLock(t)
    \/ MetaRelease(t)
    \/ AcquireOk(t)
    \/ AcquireFail(t)
    \/ AcquireError(t)
    \/ BodyReturn(t)
    \/ BodyRaise(t)
    \/ Return(t)

SpecSync == InitSync /\ [][NextSync]_vars

\* one method with the default decoration, called on two instances
InitObjects ==
  /\ cfg = [c \in Callables |-> Default]
  /\ InitLocks
  /\ ListIdle
  /\ WrapIdle

\* the threads call o1.c() and o2.c()
NextObjects ==
  \E t \in Threads :
    \/ Call(t, "c", "o1")
    \/ Call(t, "c", "o2")
    \/ MetaAcquire(t)
    \/ GetAttr(t)
    \/ CreateLock(t)
    \/ MetaRelease(t)
    \/ AcquireOk(t)
    \/ BodyReturn(t)
    \/ BodyRaise(t)
    \/ Return(t)

SpecObjects == InitObjects /\ [][NextObjects]_vars

\* two methods sharing a lock_name, each decorated with its own arguments
InitMixed ==
  /\ cfg \in {[c \in Callables |-> IF c = "b" THEN k2 ELSE k1] :
                k1 \in Configs, k2 \in Configs}
  /\ InitLocks
  /\ ListIdle
  /\ WrapIdle

\* the threads call o1.a() and o1.b()
NextMixed ==
  \E t \in Threads :
    \/ Call(t, "a", "o1")
    \/ Call(t, "b", "o1")
    \/ MetaAcquire(t)
    \/ GetAttr(t)
    \/ CreateLock(t)
    \/ MetaRelease(t)
    \/ AcquireOk(t)
    \/ AcquireFail(t)
    \/ AcquireError(t)
    \/ BodyReturn(t)
    \/ BodyRaise(t)
    \/ Return(t)

SpecMixed == InitMixed /\ [][NextMixed]_vars

(***************************************************************************)
(* Properties of the synchronized wrappers                                 *)
(***************************************************************************)
Frames(t) == 1..Depth(t)

\* thread t is inside the body of callable c called on object o
InBody(t, c, o) ==
  \E i \in Frames(t) :
    stack[t][i].c = c /\ stack[t][i].o = o /\ stack[t][i].pc = "body"

\* thread t is waiting in acquire() for the lock of callable c on object o
Waiting(t, c, o) ==
  /\ At(t, "acquire")
  /\ Top(t).c = c /\ Top(t).o = o
  /\ ~CanAcquire(Top(t).lock, t)

\* the number of calls of thread t that are inside their body with lock l
Holds(t, l) ==
  Cardinality({i \in Frames(t) :
                 stack[t][i].pc = "body" /\ stack[t][i].lock = l})

CallSites == {<<"f", NoObject>>, <<"a", "o1">>, <<"b", "o1">>}

\* C1: with blocking=True and timeout=-1, two distinct threads are never
\* both inside the body of the same synchronized function, or of the same
\* synchronized method of the same instance.
C1_MutualExclusion ==
  \A t1 \in Threads, t2 \in Threads, s \in CallSites :
    (t1 /= t2 /\ cfg[s[1]] = Default /\ InBody(t1, s[1], s[2]))
      => ~InBody(t2, s[1], s[2])

C1_Witness ==
  \E t1 \in Threads, t2 \in Threads, s \in CallSites :
    /\ t1 /= t2
    /\ cfg[s[1]] = Default
    /\ InBody(t1, s[1], s[2])
    /\ Waiting(t2, s[1], s[2])

\* C2: a thread that is inside a wrapped callable and calls it again is not
\* made to wait by acquire(); the inner call runs its body and returns; and
\* while any of the thread's calls is inside the body the lock stays owned
\* by the thread, once for each such call, so no other thread can take it
\* before the outermost call has left its body.
C2_Reentrant ==
  \A t \in Threads :
    \A i \in Frames(t) : \A j \in Frames(t) :
      (i < j /\ stack[t][i].c = stack[t][j].c /\ stack[t][i].o = stack[t][j].o)
        => /\ stack[t][j].pc = "acquire" => CanAcquire(stack[t][j].lock, t)
           /\ stack[t][j].pc = "return" =>
                /\ stack[t][j].ran
                /\ stack[t][j].exc \in {"none", "BodyError"}
           /\ lockOwner[stack[t][i].lock] = t
           /\ lockCount[stack[t][i].lock] = Holds(t, stack[t][i].lock)
           /\ \A u \in Threads \ {t} : Holds(u, stack[t][i].lock) = 0

C2_Witness ==
  \E t \in Threads, u \in Threads :
    /\ t /= u
    /\ Depth(t) = 2
    /\ stack[t][1].c = stack[t][2].c /\ stack[t][1].o = stack[t][2].o
    /\ stack[t][2].pc = "return" /\ stack[t][2].ret = "value"
    /\ stack[t][1].pc = "body"
    /\ lockCount[stack[t][1].lock] = 1
    /\ Waiting(u, stack[t][1].c, stack[t][1].o)

\* C3: methods a and b of one instance, decorated with the same explicit
\* lock_name, use one lock object, and with blocking=True and timeout=-1 no
\* thread is inside the body of b while another thread is inside a.
C3_SharedLockName ==
  \A t1 \in Threads, t2 \in Threads, o \in Objects :
    /\ \A i \in Frames(t1), j \in Frames(t2) :
         ( /\ stack[t1][i].c = "a" /\ stack[t2][j].c = "b"
           /\ stack[t1][i].o = o /\ stack[t2][j].o = o
           /\ stack[t1][i].lock /= NoLock /\ stack[t2][j].lock /= NoLock )
           => stack[t1][i].lock = stack[t2][j].lock
    /\ ( /\ t1 /= t2
         /\ cfg["a"] = Default /\ cfg["b"] = Default
         /\ InBody(t1, "a", o) )
         => ~InBody(t2, "b", o)

C3_Witness ==
  \E t1 \in Threads, t2 \in Threads :
    /\ t1 /= t2
    /\ cfg["a"] = Default /\ cfg["b"] = Default
    /\ InBody(t1, "a", "o1")
    /\ Waiting(t2, "b", "o1")

\* C4: a call whose acquire() returned False (blocking=False with the lock
\* held by another thread, or the timeout elapsed) does not run the body,
\* returns None and leaves without an exception.
C4_FailedAcquireIsNoOp ==
  \A t \in Threads : \A i \in Frames(t) :
    stack[t][i].acq = "False"
      => /\ ~stack[t][i].ran
         /\ stack[t][i].pc = "return"
         /\ stack[t][i].ret = "None"
         /\ stack[t][i].exc = "none"

C4_Witness ==
  \E t \in Threads, u \in Threads :
    /\ t /= u
    /\ At(t, "return")
    /\ Top(t).acq = "False"
    /\ ~cfg[Top(t).c].blocking
    /\ lockOwner[Top(t).lock] = u

\* C5: when the body has raised, the lock taken for that call is released
\* before the exception leaves the wrapper (the thread owns the lock only
\* for its calls that are still inside their body); and a call that did not
\* get the lock leaves with no exception from the release in its finally
\* clause.
C5_ReleasedOnException ==
  \A t \in Threads :
    /\ (At(t, "return") /\ Top(t).exc = "BodyError")
         => IF Holds(t, Top(t).lock) = 0
              THEN lockOwner[Top(t).lock] /= t
              ELSE lockCount[Top(t).lock] = Holds(t, Top(t).lock)
    /\ (At(t, "return") /\ Top(t).acq = "False") => Top(t).exc = "none"

C5_Witness ==
  \E t \in Threads, u \in Threads :
    /\ t /= u
    /\ At(t, "return") /\ Top(t).exc = "BodyError"
    /\ At(u, "body") /\ Top(u).lock = Top(t).lock

\* C6: for every (instance, lock name) slot at most one lock object is ever
\* created, and every call that has resolved its lock uses the lock object
\* stored in the slot.
C6_OneLockPerSlot ==
  /\ Cardinality(Locks) =
       1 + Cardinality({s \in Objects \X LockNames : attr[s[1]][s[2]] /= NoLock})
  /\ \A t \in Threads : \A i \in Frames(t) :
       (stack[t][i].c \in Methods /\ stack[t][i].lock /= NoLock)
         => stack[t][i].lock = attr[stack[t][i].o][LockName(stack[t][i].c)]

C6_Witness ==
  \E t \in Threads, u \in Threads :
    /\ t /= u
    /\ At(t, "metarel") /\ Top(t).c = "a"
    /\ Top(t).lock = attr["o1"]["shared"]
    /\ At(u, "meta") /\ Top(u).c = "b"
    /\ \A l \in Locks : lockOwner[l] = NoThread

\* C7: the meta-lock is held only by a thread whose current call is in the
\* lookup/creation/registration of its lock; a thread whose current call is
\* waiting in acquire(), inside the body or returning does not hold it.
C7_MetaLockOnlyForLookup ==
  /\ meta_lock /= NoThread =>
       (At(meta_lock, "getattr") \/ At(meta_lock, "create")
          \/ At(meta_lock, "metarel"))
  /\ \A t \in Threads :
       (At(t, "acquire") \/ At(t, "body") \/ At(t, "return"))
         => meta_lock /= t

C7_Witness ==
  \E t \in Threads, u \in Threads :
    /\ t /= u
    /\ Waiting(t, "a", "o1")
    /\ At(u, "getattr")
    /\ meta_lock = u

\* C18: the lock of a synchronized method belongs to the receiving object:
\* calls of method c on different instances use different lock objects, and
\* two threads are never both inside c on the same instance.
C18_LockPerObject ==
  \A t1 \in Threads, t2 \in Threads :
    /\ \A i \in Frames(t1), j \in Frames(t2) :
         ( /\ stack[t1][i].c = "c" /\ stack[t2][j].c = "c"
           /\ stack[t1][i].lock /= NoLock /\ stack[t2][j].lock /= NoLock )
           => (stack[t1][i].lock = stack[t2][j].lock
                 <=> stack[t1][i].o = stack[t2][j].o)
    /\ \A o \in Objects :
         (t1 /= t2 /\ InBody(t1, "c", o)) => ~InBody(t2, "c", o)

\* two threads inside c at once, on different instances, while a call on
\* one of these instances waits
C18_Witness ==
  \E t1 \in Threads, t2 \in Threads :
    /\ t1 /= t2
    /\ Depth(t1) = 1 /\ InBody(t1, "c", "o1")
    /\ InBody(t2, "c", "o2")
    /\ lockOwner[attr["o1"][LockName("c")]] = t1
    /\ lockOwner[attr["o2"][LockName("c")]] = t2

\* the number of times thread t has acquired lock l and not released it
Level(t, l) == IF lockOwner[l] = t THEN lockCount[l] ELSE 0

\* C19: for every (blocking, timeout) and every outcome of acquire() and of
\* the body, a call leaves the lock as it found it: at all times a thread
\* holds each lock exactly once for each of its calls that is inside the
\* body with that lock.
C19_Balanced ==
  \A t \in Threads : \A l \in Locks : Level(t, l) = Holds(t, l)

(***************************************************************************)
(* ListLayout: the cue-sequencing policy                                   *)
(***************************************************************************)
EndListBehavior == {"Stop", "Restart"}
CueActions == {"Default", "Start", "Stop"}
NoCue == -1

\* no synchronized call in progress
SyncIdle ==
  /\ cfg = [c \in Callables |-> Default]
  /\ InitLocks

\* the cues are identified by their position 0..cues-1 in the list
InitList ==
  /\ SyncIdle
  /\ WrapIdle
  /\ cues \in 0..MaxCues
  /\ current_index \in -1..(cues - 1)
  /\ auto_continue \in BOOLEAN
  /\ end_list \in EndListBehavior
  /\ op = [name |-> "none", arg |-> 0, action |-> "-", before |-> current_index,
           executed |-> <<>>, emitted |-> <<>>, raised |-> "none"]
  /\ history = <<>>

\* CueLayout.current_cue(): the cue at the current index, if any
current_cue == IF 0 <= current_index /\ current_index < cues THEN current_index ELSE NoCue

\* index %= len(self.model_adapter) divides by zero on an empty list
set_current_index_raises(index) == end_list = "Restart" /\ cues = 0

\* the index is never taken modulo the length
NotWrapped(index) == index

\* the index once "if self._end_list == EndListBehavior.Restart:
\* index %= len(self.model_adapter)" has run
Wrapped(index) == IF end_list = "Restart" THEN index % cues ELSE index

\* the range test misses its lower limit
InRangeBelowCount(i) == i < cues

\* the range test admits the position after the last cue
InRangeUpToCount(i) == 0 <= i /\ i <= cues

\* 0 <= index < self.listView.topLevelItemCount()
InRange(i) == 0 <= i /\ i < cues

\* the current index after set_current_index(index)
IndexAfterSet(index) ==
  IF set_current_index_raises(index) THEN current_index
  ELSE IF InRange(Wrapped(index)) THEN Wrapped(index)
  ELSE current_index

\* ListLayout.set_current_index(index)
set_current_index(index) ==
  /\ current_index' = IndexAfterSet(index)
  /\ op' = [name |-> "set_current_index", arg |-> index, action |-> "-",
            before |-> current_index, executed |-> <<>>, emitted |-> <<>>,
            raised |-> IF set_current_index_raises(index)
                         THEN "ZeroDivisionError" ELSE "none"]
  /\ UNCHANGED <<cues, auto_continue, end_list, history>>
  /\ UNCHANGED <<cfg, stack, lockOwner, lockCount, attr, meta_lock>>
  /\ UNCHANGED wrapVars

\* the selection advances whether or not auto-continue is enabled
go_always_advances(action, advance) ==
  /\ IF current_cue /= NoCue
       THEN /\ op' = [name |-> "go", arg |-> advance, action |-> action,
                      before |-> current_index,
                      executed |-> <<[cue |-> current_cue, action |-> action]>>,
                      emitted |-> <<current_cue>>, raised |-> "none"]
            /\ current_index' = IndexAfterSet(current_index + advance)
       ELSE /\ op' = [name |-> "go", arg |-> advance, action |-> action,
                      before |-> current_index, executed |-> <<>>,
                      emitted |-> <<>>, raised |-> "none"]
            /\ current_index' = current_index
  /\ UNCHANGED <<cues, auto_continue, end_list, history>>
  /\ UNCHANGED <<cfg, stack, lockOwner, lockCount, attr, meta_lock>>
  /\ UNCHANGED wrapVars

\* ListLayout.go(action, advance)
go(action, advance) ==
  /\ IF current_cue /= NoCue
       THEN /\ op' = [name |-> "go", arg |-> advance, action |-> action,
                      before |-> current_index,
                      executed |-> <<[cue |-> current_cue, action |-> action]>>,
                      emitted |-> <<current_cue>>, raised |-> "none"]
            /\ current_index' = IF auto_continue
                            THEN IndexAfterSet(current_index + advance)
                            ELSE current_index
       ELSE /\ op' = [name |-> "go", arg |-> advance, action |-> action,
                      before |-> current_index, executed |-> <<>>,
                      emitted |-> <<>>, raised |-> "none"]
            /\ current_index' = current_index
  /\ UNCHANGED <<cues, auto_continue, end_list, history>>
  /\ UNCHANGED <<cfg, stack, lockOwner, lockCount, attr, meta_lock>>
  /\ UNCHANGED wrapVars

\* ListLayout.set_auto_next(enable)
set_auto_next(enable) ==
  /\ auto_continue' = enable
  /\ op' = [name |-> "set_auto_next", arg |-> 0, action |-> "-",
            before |-> current_index, executed |-> <<>>, emitted |-> <<>>,
            raised |-> "none"]
  /\ UNCHANGED <<cues, current_index, end_list, history>>
  /\ UNCHANGED <<cfg, stack, lockOwner, lockCount, attr, meta_lock>>
  /\ UNCHANGED wrapVars

\* the finished cue itself is taken as the next cue
NextIndexSame(i) == i

\* next_index = cue.index + 1
NextIndex(i) == i + 1

\* the selection advances for any next cue, selected or not
AdvancesAfterAnyCue(n) == auto_continue

\* the selection advances whether or not auto-continue is enabled
AdvancesWithoutAutoContinue(n) == n = current_cue

\* self._auto_continue and next_cue == self.current_cue()
AdvancesAfter(n) == auto_continue /\ n = current_cue

\* ListLayout.__cue_next(cue), for the cue at position i of the list
cue_next(i) ==
  /\ i < cues
  /\ IF NextIndex(i) < cues
       THEN /\ op' = [name |-> "cue_next", arg |-> i, action |-> "-",
                      before |-> current_index,
                      executed |-> <<[cue |-> NextIndex(i),
                                      action |-> "Default"]>>,
                      emitted |-> <<>>, raised |-> "none"]
            /\ current_index' = IF AdvancesAfter(NextIndex(i))
                                  THEN IndexAfterSet(NextIndex(i) + 1)
                                  ELSE current_index
       ELSE /\ op' = [name |-> "cue_next", arg |-> i, action |-> "-",
                      before |-> current_index, executed |-> <<>>,
                      emitted |-> <<>>, raised |-> "none"]
            /\ current_index' = current_index
  /\ UNCHANGED <<cues, auto_continue, end_list, history>>
  /\ UNCHANGED <<cfg, stack, lockOwner, lockCount, attr, meta_lock>>
  /\ UNCHANGED wrapVars

NextList ==
  \/ \E index \in (-MaxTarget)..MaxTarget : set_current_index(index)
  \/ \E action \in CueActions, advance \in (-MaxAdvance)..MaxAdvance :
       go(action, advance)
  \/ \E enable \in BOOLEAN : set_auto_next(enable)
  \/ \E i \in 0..(MaxCues - 1) : cue_next(i)

SpecList == InitList /\ [][NextList]_vars

\* ListLayout.go(action, advance) in a series of go that is recorded: the
\* cue that current_cue.execute(action) ran is appended to the history
go_recorded(action, advance) ==
  /\ Len(history) < MaxGo
  /\ IF current_cue /= NoCue
       THEN /\ op' = [name |-> "go", arg |-> advance, action |-> action,
                      before |-> current_index,
                      executed |-> <<[cue |-> current_cue, action |-> action]>>,
                      emitted |-> <<current_cue>>, raised |-> "none"]
            /\ history' = Append(history, current_cue)
            /\ current_index' = IF auto_continue
                            THEN IndexAfterSet(current_index + advance)
                            ELSE current_index
       ELSE /\ op' = [name |-> "go", arg |-> advance, action |-> action,
                      before |-> current_index, executed |-> <<>>,
                      emitted |-> <<>>, raised |-> "none"]
            /\ history' = history
            /\ current_index' = current_index
  /\ UNCHANGED <<cues, auto_continue, end_list>>
  /\ UNCHANGED <<cfg, stack, lockOwner, lockCount, attr, meta_lock>>
  /\ UNCHANGED wrapVars

\* a non-empty list with the first cue selected and auto-continue enabled
InitGo ==
  /\ SyncIdle
  /\ WrapIdle
  /\ cues \in 1..MaxCues
  /\ current_index = 0
  /\ auto_continue = TRUE
  /\ end_list \in EndListBehavior
  /\ op = [name |-> "none", arg |-> 0, action |-> "-", before |-> current_index,
           executed |-> <<>>, emitted |-> <<>>, raised |-> "none"]
  /\ history = <<>>

\* go with advance=1 and nothing else
NextGo == \E action \in CueActions : go_recorded(action, 1)

SpecGo == InitGo /\ [][NextGo]_vars

(***************************************************************************)
(* Properties of the cue-sequencing policy                                 *)
(***************************************************************************)
\* C8: set_current_index under Stop leaves the current index unchanged for
\* every target outside [0, length) and makes it the target for every
\* target inside.
C8_StopIgnoresOutOfRange ==
  (op.name = "set_current_index" /\ end_list = "Stop")
    => /\ op.raised = "none"
       /\ IF 0 <= op.arg /\ op.arg < cues
            THEN current_index = op.arg
            ELSE current_index = op.before

C8_Witness ==
  /\ op.name = "set_current_index" /\ end_list = "Stop"
  /\ cues = 3 /\ op.before = 2 /\ op.arg = 5
  /\ current_index = 2

\* C9: set_current_index under Restart completes for every target and every
\* cue list, and the current index becomes the target modulo the length.
C9_RestartWraps ==
  (op.name = "set_current_index" /\ end_list = "Restart")
    => /\ op.raised = "none"
       /\ cues > 0 => current_index = op.arg % cues

\* C10: go with a current cue executes exactly that cue once with the given
\* action and emits cue_executed for it, and the current index then moves
\* as set_current_index(current + advance) moves it if and only if
\* auto-continue is enabled; go without a current cue executes and emits
\* nothing and leaves the current index unchanged.
C10_Go ==
  op.name = "go" =>
    IF 0 <= op.before /\ op.before < cues
      THEN /\ op.executed = <<[cue |-> op.before, action |-> op.action]>>
           /\ op.emitted = <<op.before>>
           /\ op.raised = "none"
           /\ current_index =
                IF ~auto_continue THEN op.before
                ELSE IF end_list = "Restart"
                  THEN (op.before + op.arg) % cues
                ELSE IF 0 <= op.before + op.arg /\ op.before + op.arg < cues
                  THEN op.before + op.arg
                ELSE op.before
      ELSE /\ op.executed = <<>>
           /\ op.emitted = <<>>
           /\ current_index = op.before

C10_Witness ==
  /\ op.name = "go" /\ auto_continue
  /\ op.before = 0 /\ op.arg = 1 /\ cues = 3
  /\ op.executed = <<[cue |-> 0, action |-> "Start"]>>
  /\ current_index = 1

\* C11: when the cue at position i signals "next" and i+1 is within the
\* list, exactly the cue at i+1 is executed; the current index then moves as
\* set_current_index(i+2) moves it if and only if auto-continue is enabled
\* and the cue at i+1 is the selected one, and is unchanged otherwise.
C11_AutoAdvance ==
  (op.name = "cue_next" /\ op.arg + 1 < cues)
    => /\ op.executed = <<[cue |-> op.arg + 1, action |-> "Default"]>>
       /\ op.raised = "none"
       /\ current_index =
            IF ~(auto_continue /\ op.before = op.arg + 1) THEN op.before
            ELSE IF end_list = "Restart" THEN (op.arg + 2) % cues
            ELSE IF op.arg + 2 < cues THEN op.arg + 2
            ELSE op.before

C11_Witness ==
  /\ op.name = "cue_next" /\ auto_continue
  /\ cues = 3 /\ op.arg = 0 /\ op.before = 1
  /\ op.executed = <<[cue |-> 1, action |-> "Default"]>>
  /\ current_index = 2

\* C12: when the last cue of the list signals "next", no cue is executed,
\* the current index is unchanged and no exception leaves the handler.
C12_LastCueHasNoSuccessor ==
  (op.name = "cue_next" /\ op.arg = cues - 1)
    => /\ op.executed = <<>>
       /\ current_index = op.before
       /\ op.raised = "none"

C12_Witness ==
  /\ op.name = "cue_next" /\ cues = 2 /\ op.arg = 1
  /\ auto_continue /\ end_list = "Restart"
  /\ op.before = 1 /\ current_index = 1
  /\ op.executed = <<>>

\* C13: the current index is always a position of the list or the "none"
\* value -1.
C13_CurrentIndexValid ==
  current_index = -1 \/ (0 <= current_index /\ current_index < cues)

C13_Witness ==
  /\ op.name = "go" /\ auto_continue /\ end_list = "Stop"
  /\ cues = 3 /\ op.before = 2 /\ op.arg = 1
  /\ current_index = 2

\* C20: while auto-continue is disabled, no go and no "next" event changes
\* the current index.
C20_NoAdvanceWithoutAutoContinue ==
  [][(~auto_continue /\ op'.name \in {"go", "cue_next"})
       => current_index' = current_index]_vars

C20_Witness ==
  /\ op.name = "cue_next" /\ ~auto_continue
  /\ op.before = op.arg + 1
  /\ op.executed = <<[cue |-> op.arg + 1, action |-> "Default"]>>
  /\ current_index = op.before

(***************************************************************************)
(* Argument values and their string forms                                  *)
(***************************************************************************)
\* the ints 1 and 2, MyInt(1) of a subclass of int, and a str
I1 == [type |-> "int", val |-> 1]
I2 == [type |-> "int", val |-> 2]
M1 == [type |-> "MyInt", val |-> 1]
S0 == [type |-> "str", val |-> 0]

\* repr(v): an int, also of a subclass, prints its digits, a str its quoted
\* text
Repr(v) ==
  IF v.type = "str" THEN "'s" \o ToString(v.val) \o "'" ELSE ToString(v.val)

RECURSIVE JoinRepr(_)
JoinRepr(vs) ==
  IF Len(vs) = 0 THEN ""
  ELSE IF Len(vs) = 1 THEN Repr(vs[1])
  ELSE Repr(vs[1]) \o ", " \o JoinRepr(Tail(vs))

\* str(args) of the tuple of positional arguments
StrArgs(args) ==
  IF Len(args) = 1 THEN "(" \o Repr(args[1]) \o ",)"
  ELSE "(" \o JoinRepr(args) \o ")"

RECURSIVE JoinItems(_)
JoinItems(kw) ==
  IF Len(kw) = 0 THEN ""
  ELSE IF Len(kw) = 1 THEN "'" \o kw[1][1] \o "': " \o Repr(kw[1][2])
  ELSE "'" \o kw[1][1] \o "': " \o Repr(kw[1][2]) \o ", " \o JoinItems(Tail(kw))

\* str(kwargs) of the dict of keyword arguments, given as its items
StrKwargs(kw) == "{" \o JoinItems(kw) \o "}"

(***************************************************************************)
(* memoize                                                                 *)
(***************************************************************************)
\* the calls of the memoized function f that the program makes:
\* f(1, 2), f(2, 1), f(1), f(MyInt(1)), f(1, k=2)
MemoCalls ==
  { [args |-> <<I1, I2>>, kwargs |-> <<>>],
    [args |-> <<I2, I1>>, kwargs |-> <<>>],
    [args |-> <<I1>>, kwargs |-> <<>>],
    [args |-> <<M1>>, kwargs |-> <<>>],
    [args |-> <<I1>>, kwargs |-> << <<"k", I2>> >>] }

\* the keyword arguments are left out of the key
KeyOfArgs(args, kwargs) == StrArgs(args)

\* key = str(args) + str(kwargs)
Key(args, kwargs) == StrArgs(args) \o StrKwargs(kwargs)

Cached == DOMAIN cache

\* the object a new invocation of the body returns
NewResult == Cardinality(Cached) + 1

\* memoize.memoizer(*args, **kwargs); on a new key the body returns a new
\* object, or raises
memoizer(call, raises) ==
  LET key == Key(call.args, call.kwargs) IN
  /\ IF key \in Cached
       THEN /\ cache' = cache
            /\ res' = [fn |-> "memoizer", args |-> call.args,
                       kwargs |-> call.kwargs, ran |-> 0, body |-> "-",
                       ret |-> cache[key], exc |-> "none", logged |-> FALSE,
                       before |-> cache]
       ELSE /\ Cardinality(Cached) < MaxCached
            /\ IF raises
                 THEN /\ cache' = cache
                      /\ res' = [fn |-> "memoizer", args |-> call.args,
                                 kwargs |-> call.kwargs, ran |-> 1,
                                 body |-> "raised", ret |-> NoResult,
                                 exc |-> "BodyError", logged |-> FALSE,
                                 before |-> cache]
                 ELSE /\ cache' = [k \in Cached \cup {key} |->
                                     IF k = key THEN NewResult ELSE cache[k]]
                      /\ res' = [fn |-> "memoizer", args |-> call.args,
                                 kwargs |-> call.kwargs, ran |-> 1,
                                 body |-> "returned", ret |-> NewResult,
                                 exc |-> "none", logged |-> FALSE,
                                 before |-> cache]
  /\ UNCHANGED tasks
  /\ UNCHANGED <<cfg, stack, lockOwner, lockCount, attr, meta_lock>>
  /\ UNCHANGED listVars
  /\ UNCHANGED <<memo, invoked>>

(***************************************************************************)
(* suppress_exceptions                                                     *)
(***************************************************************************)
\* @suppress_exceptions, @suppress_exceptions(log=True),
\* @suppress_exceptions(log=False)
SuppressForms == {"suppress", "suppress_log_true", "suppress_log_false"}

\* the value of log the decoration is given (True by default)
LogFlag(form) == form /= "suppress_log_false"

\* with keywords only, partial(suppress_exceptions, print_exc=log) is
\* returned; applied to the target it passes print_exc, which
\* suppress_exceptions does not accept: TypeError
DecorationRaises(form) == form /= "suppress"

\* logging.warning(...) in the except clause: log is not consulted
Logs(form) == TRUE

\* the program decorates a function in the given form and calls it once
suppressed_call(form, raises) ==
  /\ res' = IF DecorationRaises(form)
              THEN [fn |-> form, args |-> <<>>, kwargs |-> <<>>, ran |-> 0,
                    body |-> "-", ret |-> NoResult, exc |-> "TypeError",
                    logged |-> FALSE, before |-> <<>>]
            ELSE IF raises
              THEN [fn |-> form, args |-> <<>>, kwargs |-> <<>>, ran |-> 1,
                    body |-> "raised", ret |-> NoResult, exc |-> "none",
                    logged |-> Logs(form), before |-> <<>>]
            ELSE [fn |-> form, args |-> <<>>, kwargs |-> <<>>, ran |-> 1,
                  body |-> "returned", ret |-> 1, exc |-> "none",
                  logged |-> FALSE, before |-> <<>>]
  /\ UNCHANGED <<cache, tasks>>
  /\ UNCHANGED <<cfg, stack, lockOwner, lockCount, attr, meta_lock>>
  /\ UNCHANGED listVars
  /\ UNCHANGED <<memo, invoked>>

(***************************************************************************)
(* typechecked                                                             *)
(***************************************************************************)
\* isinstance(value, annotation): an instance of a subclass is an instance
IsInstance(v, ty) == v.type = ty \/ (ty = "int" /\ v.type = "MyInt")

NoAnnotation == "-"

\* the typechecked functions of the program, each with its positional
\* parameters, its keyword-only parameters, target.__code__.co_varnames
\* (positional, then keyword-only, then *rest) and target.__annotations__:
\*   def fn1(a: int, b, c: str = '')
\*   def fn2(a: int, *rest, b: str = '')
Signatures ==
  { [name |-> "fn1", pos |-> <<"a", "b", "c">>, varargs |-> FALSE,
     kwonly |-> {}, required |-> {"a", "b"},
     co_varnames |-> <<"a", "b", "c">>,
     annotations |-> [a |-> "int", b |-> NoAnnotation, c |-> "str",
                      rest |-> NoAnnotation]],
    [name |-> "fn2", pos |-> <<"a">>, varargs |-> TRUE,
     kwonly |-> {"b"}, required |-> {"a"},
     co_varnames |-> <<"a", "b", "rest">>,
     annotations |-> [a |-> "int", b |-> "str", c |-> NoAnnotation,
                      rest |-> NoAnnotation]] }

SigOf(fn) == CHOOSE sig \in Signatures : sig.name = fn

ArgValues == {I1, M1, S0}

\* the positional arguments and the keyword arguments (at most one) of a call
ArgLists == UNION {[1..n -> ArgValues] : n \in 0..MaxArgs}
KwLists == {<<>>} \cup {<< <<n, v>> >> : n \in {"a", "b", "c"}, v \in ArgValues}

KwHas(kw, name) == \E i \in 1..Len(kw) : kw[i][1] = name
KwGet(kw, name) == kw[CHOOSE i \in 1..Len(kw) : kw[i][1] = name][2]

\* the position of a positional parameter, 0 for any other name
PosOf(sig, name) ==
  IF \E p \in 1..Len(sig.pos) : sig.pos[p] = name
    THEN CHOOSE p \in 1..Len(sig.pos) : sig.pos[p] = name
    ELSE 0

\* the binding of the call: whether the parameter is supplied, and the value
\* it receives
Supplied(sig, args, kw, name) ==
  (PosOf(sig, name) >= 1 /\ PosOf(sig, name) <= Len(args)) \/ KwHas(kw, name)
Received(sig, args, kw, name) ==
  IF PosOf(sig, name) >= 1 /\ PosOf(sig, name) <= Len(args)
    THEN args[PosOf(sig, name)]
    ELSE KwGet(kw, name)

\* the calls target(*args, **kwargs) accepts: no surplus positional
\* argument, every keyword a parameter not already given by position, every
\* parameter without default supplied
WellFormed(sig, args, kw) ==
  /\ sig.varargs \/ Len(args) <= Len(sig.pos)
  /\ \A i \in 1..Len(kw) :
       /\ PosOf(sig, kw[i][1]) >= 1 \/ kw[i][1] \in sig.kwonly
       /\ ~(PosOf(sig, kw[i][1]) >= 1 /\ PosOf(sig, kw[i][1]) <= Len(args))
  /\ \A name \in sig.required : Supplied(sig, args, kw, name)

\* the loop of wrapped over enumerate(co_varnames): the name at index i - 1
\* is checked against args[index] when index < len(args), else against
\* kwargs[name] when present
CheckFails(sig, args, kw, i) ==
  LET name == sig.co_varnames[i]
      annotation == sig.annotations[name]
  IN /\ annotation /= NoAnnotation
     /\ IF i <= Len(args) THEN ~IsInstance(args[i], annotation)
        ELSE IF KwHas(kw, name) THEN ~IsInstance(KwGet(kw, name), annotation)
        ELSE FALSE

TypecheckRaises(sig, args, kw) ==
  \E i \in 1..Len(sig.co_varnames) : CheckFails(sig, args, kw, i)

\* typechecked.wrapped(*args, **kwargs)
typechecked_call(sig, args, kw) ==
  /\ WellFormed(sig, args, kw)
  /\ res' = IF TypecheckRaises(sig, args, kw)
              THEN [fn |-> sig.name, args |-> args, kwargs |-> kw, ran |-> 0,
                    body |-> "-", ret |-> NoResult, exc |-> "TypeError",
                    logged |-> FALSE, before |-> <<>>]
              ELSE [fn |-> sig.name, args |-> args, kwargs |-> kw, ran |-> 1,
                    body |-> "returned", ret |-> 1, exc |-> "none",
                    logged |-> FALSE, before |-> <<>>]
  /\ UNCHANGED <<cache, tasks>>
  /\ UNCHANGED <<cfg, stack, lockOwner, lockCount, attr, meta_lock>>
  /\ UNCHANGED listVars
  /\ UNCHANGED <<memo, invoked>>

InitWrappers ==
  /\ SyncIdle
  /\ ListIdle
  /\ WrapIdle

NextWrappers ==
  \/ \E call \in MemoCalls, raises \in BOOLEAN : memoizer(call, raises)
  \/ \E form \in SuppressForms, raises \in BOOLEAN : suppressed_call(form, raises)

SpecWrappers == InitWrappers /\ [][NextWrappers]_vars

InitTypechecked ==
  /\ SyncIdle
  /\ ListIdle
  /\ WrapIdle

NextTypechecked ==
  \E sig \in Signatures, args \in ArgLists, kw \in KwLists :
    typechecked_call(sig, args, kw)

SpecTypechecked == InitTypechecked /\ [][NextTypechecked]_vars

(***************************************************************************)
(* Properties of memoize, suppress_exceptions and typechecked              *)
(***************************************************************************)
\* C14: a memoized call whose key, str(args) + str(kwargs), is in the cache
\* returns the stored object without invoking the body; a call with a new
\* key invokes the body once and stores the object it returns under the key.
C14_Memoize ==
  res.fn = "memoizer" =>
    LET k == StrArgs(res.args) \o StrKwargs(res.kwargs) IN
    IF k \in DOMAIN res.before
      THEN /\ res.ran = 0
           /\ res.ret = res.before[k]
           /\ res.exc = "none"
           /\ cache = res.before
      ELSE /\ res.ran = 1
           /\ IF res.exc = "none"
                THEN /\ res.ret /= NoResult
                     /\ \A j \in DOMAIN res.before : res.before[j] /= res.ret
                     /\ DOMAIN cache = DOMAIN res.before \cup {k}
                     /\ cache[k] = res.ret
                     /\ \A j \in DOMAIN res.before : cache[j] = res.before[j]
                ELSE cache = res.before

\* f(1, 2), f(2, 1), f(1, 2): two invocations, the third call returns the
\* object of the first
C14_Witness ==
  /\ res.fn = "memoizer" /\ res.args = <<I1, I2>> /\ res.ran = 0
  /\ DOMAIN cache = {"(1, 2){}", "(2, 1){}"}
  /\ cache["(1, 2){}"] /= cache["(2, 1){}"]
  /\ res.ret = cache["(1, 2){}"]

\* C15: in the bare form and in the form configured with log, an error of
\* the body is caught, the caller receives None and no exception, and a
\* warning is logged exactly when log is true.
C15_Suppress ==
  res.fn \in SuppressForms =>
    /\ res.exc = "none"
    /\ res.body = "raised" => (res.ret = NoResult /\ res.logged = LogFlag(res.fn))

\* C16: a call of a typechecked function raises a type error, without
\* running the body, when some annotated parameter receives a value that
\* is not an instance of its annotation; otherwise the body runs once and
\* its result is returned.  Parameters without annotation and parameters
\* not supplied are not checked.
C16_Typechecked ==
  res.fn \in {sig.name : sig \in Signatures} =>
    LET sig == SigOf(res.fn)
        mismatch ==
          \E name \in DOMAIN sig.annotations :
            /\ sig.annotations[name] /= NoAnnotation
            /\ Supplied(sig, res.args, res.kwargs, name)
            /\ ~IsInstance(Received(sig, res.args, res.kwargs, name),
                           sig.annotations[name])
    IN IF mismatch
         THEN res.exc = "TypeError" /\ res.ran = 0
         ELSE res.exc = "none" /\ res.ran = 1 /\ res.ret = 1

(***************************************************************************)
(* async and async_in_pool                                                 *)
(***************************************************************************)
\* the threads of the program: the main thread, the daemon thread that the
\* i-th dispatch starts, and the workers of the pool
Main == "main"
ThreadOf(i) == "thread" \o ToString(i)
PoolWorkers == {"worker" \o ToString(k) : k \in 1..PoolSize}
NoWorker == "-"

Tasks == 1..Len(tasks)

\* the threads that are running code of the program and can call a wrapped
\* function: the main thread, and every worker inside a body
Callers == {Main} \cup {tasks[i].worker : i \in {j \in Tasks : tasks[j].st = "running"}}

Dispatched(fn) ==
  [fn |-> fn, args |-> <<>>, kwargs |-> <<>>, ran |-> 0, body |-> "-",
   ret |-> NoResult, exc |-> "none", logged |-> FALSE, before |-> <<>>]

\* the body is run by the caller, inside the call, and its result returned
async_call_inline(caller) ==
  /\ Len(tasks) < MaxTasks
  /\ caller \in Callers
  /\ tasks' = Append(tasks, [mode |-> "thread", caller |-> caller,
                             worker |-> caller, st |-> "done", runs |-> 1,
                             outcome |-> "returned"])
  /\ res' = [Dispatched("async") EXCEPT !.ran = 1, !.body = "returned", !.ret = 1]
  /\ UNCHANGED cache
  /\ UNCHANGED <<cfg, stack, lockOwner, lockCount, attr, meta_lock>>
  /\ UNCHANGED listVars
  /\ UNCHANGED <<memo, invoked>>

\* async.wrapped: Thread(target=target, ..., daemon=True).start(); falls
\* through, returning None
async_call(caller) ==
  /\ Len(tasks) < MaxTasks
  /\ caller \in Callers
  /\ tasks' = Append(tasks, [mode |-> "thread", caller |-> caller,
                             worker |-> ThreadOf(Len(tasks) + 1),
                             st |-> "started", runs |-> 0, outcome |-> "-"])
  /\ res' = Dispatched("async")
  /\ UNCHANGED cache
  /\ UNCHANGED <<cfg, stack, lockOwner, lockCount, attr, meta_lock>>
  /\ UNCHANGED listVars
  /\ UNCHANGED <<memo, invoked>>

\* async_in_pool.wrapped: pool.submit(target, *args, **kwargs); the future
\* is dropped and None returned
pool_call(caller) ==
  /\ Len(tasks) < MaxTasks
  /\ caller \in Callers
  /\ tasks' = Append(tasks, [mode |-> "pool", caller |-> caller,
                             worker |-> NoWorker, st |-> "queued",
                             runs |-> 0, outcome |-> "-"])
  /\ res' = Dispatched("async_in_pool")
  /\ UNCHANGED cache
  /\ UNCHANGED <<cfg, stack, lockOwner, lockCount, attr, meta_lock>>
  /\ UNCHANGED listVars
  /\ UNCHANGED <<memo, invoked>>

\* the started thread begins to run target
thread_run(i) ==
  /\ i \in Tasks
  /\ tasks[i].st = "started"
  /\ tasks' = [tasks EXCEPT ![i].st = "running", ![i].runs = @ + 1]
  /\ UNCHANGED <<cache, res>>
  /\ UNCHANGED <<cfg, stack, lockOwner, lockCount, attr, meta_lock>>
  /\ UNCHANGED listVars
  /\ UNCHANGED <<memo, invoked>>

Idle(w) == \A j \in Tasks : ~(tasks[j].st = "running" /\ tasks[j].worker = w)

\* an idle worker of the pool takes the oldest submitted work item and
\* begins to run target
pool_take(i, w) ==
  /\ i \in Tasks
  /\ tasks[i].st = "queued"
  /\ \A j \in 1..(i - 1) : tasks[j].st /= "queued"
  /\ Idle(w)
  /\ tasks' = [tasks EXCEPT ![i].st = "running", ![i].worker = w,
                            ![i].runs = @ + 1]
  /\ UNCHANGED <<cache, res>>
  /\ UNCHANGED <<cfg, stack, lockOwner, lockCount, attr, meta_lock>>
  /\ UNCHANGED listVars
  /\ UNCHANGED <<memo, invoked>>

\* target returns on its worker: the thread ends, or the pool stores the
\* result in the future nobody holds
body_returns(i) ==
  /\ i \in Tasks
  /\ tasks[i].st = "running"
  /\ tasks' = [tasks EXCEPT ![i].st = "done", ![i].outcome = "returned"]
  /\ UNCHANGED <<cache, res>>
  /\ UNCHANGED <<cfg, stack, lockOwner, lockCount, attr, meta_lock>>
  /\ UNCHANGED listVars
  /\ UNCHANGED <<memo, invoked>>

\* target raises on its worker: the thread ends with the exception, or the
\* pool stores it in the future nobody holds
body_raises(i) ==
  /\ i \in Tasks
  /\ tasks[i].st = "running"
  /\ tasks' = [tasks EXCEPT ![i].st = "done", ![i].outcome = "raised"]
  /\ UNCHANGED <<cache, res>>
  /\ UNCHANGED <<cfg, stack, lockOwner, lockCount, attr, meta_lock>>
  /\ UNCHANGED listVars
  /\ UNCHANGED <<memo, invoked>>

InitAsync ==
  /\ SyncIdle
  /\ ListIdle
  /\ WrapIdle

NextAsync ==
  \/ \E caller \in {Main} \cup {ThreadOf(i) : i \in 1..MaxTasks} \cup PoolWorkers :
       \/ async_call(caller)
       \/ pool_call(caller)
  \/ \E i \in 1..MaxTasks :
       \/ thread_run(i)
       \/ \E w \in PoolWorkers : pool_take(i, w)
       \/ body_returns(i)
       \/ body_raises(i)

\* every started thread and every worker of the pool is scheduled, and
\* bodies terminate
FairAsync ==
  \A i \in 1..MaxTasks :
    /\ WF_vars(thread_run(i))
    /\ WF_vars(\E w \in PoolWorkers : pool_take(i, w))
    /\ WF_vars(body_returns(i) \/ body_raises(i))

SpecAsync == InitAsync /\ [][NextAsync]_vars /\ FairAsync

(***************************************************************************)
(* Properties of async dispatch                                            *)
(***************************************************************************)
\* the call hands the body over and returns None at once: the new task has
\* not run when the call returns
ReturnsAtOnce ==
  [][Len(tasks') > Len(tasks) =>
       /\ tasks'[Len(tasks')].runs = 0
       /\ res'.ret = NoResult /\ res'.exc = "none" /\ res'.ran = 0]_vars

\* what the caller was given does not change when the body finishes
NothingDelivered ==
  [][(\E i \in Tasks : tasks[i].st = "running" /\ tasks'[i].st = "done") =>
       res' = res]_vars

AtMostOnce == \A i \in Tasks : tasks[i].runs <= 1

Ran(i) == IF i \in Tasks THEN tasks[i].runs = 1 ELSE FALSE

EventuallyRun == \A i \in 1..MaxTasks : (i \in Tasks) ~> Ran(i)

OnOtherThread ==
  \A i \in Tasks : tasks[i].runs > 0 => tasks[i].worker /= tasks[i].caller

OnItsWorker ==
  \A i \in Tasks :
    tasks[i].runs > 0 =>
      IF tasks[i].mode = "thread"
        THEN tasks[i].worker = ThreadOf(i) /\ tasks[i].worker /= tasks[i].caller
        ELSE tasks[i].worker \in PoolWorkers

Expected(k) ==
  IF end_list = "Restart" THEN (k - 1) % cues
  ELSE IF k <= cues THEN k - 1 ELSE cues - 1

\* C21: with auto-continue enabled, starting on cue 0 of a non-empty list,
\* repeated go with advance=1 executes the cues in list order 0..n-1; then
\* under Stop the selection stays on n-1 and every further go executes it
\* again, and under Restart the selection wraps to 0 and the cycle repeats.
C21_GoSequence ==
  /\ \A k \in 1..Len(history) : history[k] = Expected(k)
  /\ current_index = Expected(Len(history) + 1)
  /\ op.name = "go" => op.executed = <<[cue |-> history[Len(history)], action |-> op.action]>>

\* three cues under Restart: the cycle has been run once and begun again
C21_Witness ==
  /\ cues = 3 /\ end_list = "Restart"
  /\ history = <<0, 1, 2, 0, 1>>
  /\ current_index = 2

(***************************************************************************)
(* memoize with concurrent callers                                         *)
(***************************************************************************)
\* the number of times the body has been invoked for a key, and in all
Invoked(k) == IF k \in DOMAIN invoked THEN invoked[k] ELSE 0

RECURSIVE SumInvoked(_)
SumInvoked(ks) ==
  IF ks = {} THEN 0
  ELSE LET k == CHOOSE x \in ks : TRUE IN invoked[k] + SumInvoked(ks \ {k})

TotalInvoked == SumInvoked(DOMAIN invoked)

CountInvocation(k) ==
  [j \in DOMAIN invoked \cup {k} |-> IF j = k THEN Invoked(k) + 1 ELSE invoked[j]]

\* memoizer(*args, **kwargs) is entered: key = str(args) + str(kwargs)
memo_call(t, call) ==
  /\ memo[t].pc = "idle"
  /\ memo' = [memo EXCEPT ![t] = [pc |-> "test", key |-> Key(call.args, call.kwargs),
                                  val |-> NoResult, ret |-> NoResult]]
  /\ UNCHANGED <<cache, res, tasks, invoked>>
  /\ UNCHANGED <<cfg, stack, lockOwner, lockCount, attr, meta_lock>>
  /\ UNCHANGED listVars

\* if key not in cache
memo_test(t) ==
  /\ memo[t].pc = "test"
  /\ memo' = [memo EXCEPT ![t].pc = IF memo[t].key \in DOMAIN cache
                                      THEN "return" ELSE "body"]
  /\ UNCHANGED <<cache, res, tasks, invoked>>
  /\ UNCHANGED <<cfg, stack, lockOwner, lockCount, attr, meta_lock>>
  /\ UNCHANGED listVars

\* obj(*args, **kwargs) runs and returns a new object (a body that raises
\* leaves memoizer without storing; the callers here use one that returns)
memo_body(t) ==
  /\ memo[t].pc = "body"
  /\ TotalInvoked < MaxInvoked
  /\ invoked' = CountInvocation(memo[t].key)
  /\ memo' = [memo EXCEPT ![t].pc = "store", ![t].val = TotalInvoked + 1]
  /\ UNCHANGED <<cache, res, tasks>>
  /\ UNCHANGED <<cfg, stack, lockOwner, lockCount, attr, meta_lock>>
  /\ UNCHANGED listVars

\* cache[key] = <the object the body returned>
memo_store(t) ==
  /\ memo[t].pc = "store"
  /\ cache' = [k \in DOMAIN cache \cup {memo[t].key} |->
                 IF k = memo[t].key THEN memo[t].val ELSE cache[k]]
  /\ memo' = [memo EXCEPT ![t].pc = "return"]
  /\ UNCHANGED <<res, tasks, invoked>>
  /\ UNCHANGED <<cfg, stack, lockOwner, lockCount, attr, meta_lock>>
  /\ UNCHANGED listVars

\* return cache[key]
memo_return(t) ==
  /\ memo[t].pc = "return"
  /\ memo' = [memo EXCEPT ![t].pc = "idle", ![t].ret = cache[memo[t].key]]
  /\ UNCHANGED <<cache, res, tasks, invoked>>
  /\ UNCHANGED <<cfg, stack, lockOwner, lockCount, attr, meta_lock>>
  /\ UNCHANGED listVars

\* the calls that the threads make concurrently: f(1, 2) and f(2, 1)
ConcurrentCalls == {call \in MemoCalls : Len(call.args) = 2}

InitMemo ==
  /\ SyncIdle
  /\ ListIdle
  /\ WrapIdle

NextMemo ==
  \E t \in Threads :
    \/ \E call \in ConcurrentCalls : memo_call(t, call)
    \/ memo_test(t)
    \/ memo_body(t)
    \/ memo_store(t)
    \/ memo_return(t)

SpecMemo == InitMemo /\ [][NextMemo]_vars

(***************************************************************************)
(* Properties of memoize with concurrent callers                           *)
(***************************************************************************)
\* C22: for any interleaving of calls of a memoized function from several
\* threads, the body is invoked at most once for a key, and a cache entry,
\* once written, is never replaced by a different result.
C22_MemoizeConcurrent ==
  /\ [](\A k \in DOMAIN invoked : invoked[k] <= 1)
  /\ [][\A k \in DOMAIN cache : k \in DOMAIN cache' /\ cache'[k] = cache[k]]_vars

====
